---- MODULE Spec2Model ----
(***************************************************************************)
(* Model of lsst.ts.FiberSpectrograph.avsFiberSpectrograph: the            *)
(* AvsFiberSpectrograph controller (connect, disconnect, expose,           *)
(* stop_exposure) driving the vendor libavs calls, run on an asyncio       *)
(* event loop.  Vendor calls are recorded, in order, in `calls`.           *)
(***************************************************************************)
EXTENDS Integers, Sequences, FiniteSets, TLC

\* ------------------------------------------------------------------ bounds
\* Number of expose() invocations that may be made on the controller.
MaxCallers == 2
\* PollScan calls per exposure that are recorded individually; a device that
\* is not stuck reports ready (or fails) by this poll at the latest.
MaxPolls == 2
\* Number of stop_exposure() and disconnect() calls made by the client.
MaxClientOps == 2
\* The same, of clients that call expose() concurrently.
MaxRaceOps == 1
\* Number of expose() calls such clients have in flight at once.
MaxInFlight == 2
\* Largest number of devices the USB enumeration reports.
MaxDevices == 2
\* Largest number of not-ready answers a scripted PollScan gives before it
\* reports ready.
MaxNotReady == 3
\* Number of summary-state transitions the CSC is taken through.
MaxTransitions == 5

\* --------------------------------------------------------- program values
\* `handle = None` (class attribute) and `device = None`.
NONE == -9999
\* AvsReturnCode.invalidHandle
invalidHandle == 1000
\* AvsReturnCode.ERR_INVALID_PARAMETER, the error code the vendor mock uses.
ERR_INVALID_PARAMETER == -1
\* AvsSimulator.handle, the handle a successful AVS_Activate returns.
SimHandle == 314159
\* AvsSimulator.n_pixels
SimPixels == 2048

Callers == 1..MaxCallers
\* serial_number=None
NoSerial == "None"
SerialNumbers == {"1606190U1", "54321"}
\* AvsDeviceStatus values of the status byte of an AvsIdentity.
DeviceStatuses == {"USB_AVAILABLE", "USB_IN_USE_BY_APPLICATION", "USB_IN_USE_BY_OTHER"}
Identities == [SerialNumber : SerialNumbers, Status : DeviceStatuses]
NoDevice == [SerialNumber |-> "", Status |-> ""]
\* AvsSimulator.id0: the one attached device of the simulator.
id0 == [SerialNumber |-> "1606190U1", Status |-> "USB_AVAILABLE"]
\* Return codes of a vendor call: success or an error.
Codes == {0, ERR_INVALID_PARAMETER}
\* Values AVS_Activate may return.
ActivateReturns == {SimHandle, invalidHandle, ERR_INVALID_PARAMETER}
\* Values AVS_PollScan may return: not ready, ready, other, error.
PollReturns == {0, 1, 2, ERR_INVALID_PARAMETER}
\* The duration argument of expose(), relative to [MIN_DURATION, MAX_DURATION].
Durations == {"below_min", "in_range", "above_max"}

\* AvsReturnCode: the return value constants of avaspec.h, by value.
AvsReturnCode ==
    { <<0, "success">>,
      <<-1, "ERR_INVALID_PARAMETER">>, <<-2, "ERR_OPERATION_NOT_SUPPORTED">>,
      <<-3, "ERR_DEVICE_NOT_FOUND">>, <<-4, "ERR_INVALID_DEVICE_ID">>,
      <<-5, "ERR_OPERATION_PENDING">>, <<-6, "ERR_TIMEOUT">>,
      <<-7, "ERR_INVALID_PASSWORD">>, <<-8, "ERR_INVALID_MEAS_DATA">>,
      <<-9, "ERR_INVALID_SIZE">>, <<-10, "ERR_INVALID_PIXEL_RANGE">>,
      <<-11, "ERR_INVALID_INT_TIME">>, <<-12, "ERR_INVALID_COMBINATION">>,
      <<-13, "ERR_INVALID_CONFIGURATION">>, <<-14, "ERR_NO_MEAS_BUFFER_AVAIL">>,
      <<-15, "ERR_UNKNOWN">>, <<-16, "ERR_COMMUNICATION">>,
      <<-17, "ERR_NO_SPECTRA_IN_RAM">>, <<-18, "ERR_INVALID_DLL_VERSION">>,
      <<-19, "ERR_NO_MEMORY">>, <<-20, "ERR_DLL_INITIALISATION">>,
      <<-21, "ERR_INVALID_STATE">>, <<-22, "ERR_INVALID_REPLY">>,
      <<-24, "ERR_ACCESS">>,
      <<-100, "ERR_INVALID_PARAMETER_NR_PIXELS">>,
      <<-101, "ERR_INVALID_PARAMETER_ADC_GAIN">>,
      <<-102, "ERR_INVALID_PARAMETER_ADC_OFFSET">>,
      <<-110, "ERR_INVALID_MEASPARAM_AVG_SAT2">>,
      <<-111, "ERR_INVALID_MEASPARAM_AVG_RAM">>,
      <<-112, "ERR_INVALID_MEASPARAM_SYNC_RAM">>,
      <<-113, "ERR_INVALID_MEASPARAM_LEVEL_RAM">>,
      <<-114, "ERR_INVALID_MEASPARAM_SAT2_RAM">>,
      <<-115, "ERR_INVALID_MEASPARAM_FWVER_RAM">>,
      <<-116, "ERR_INVALID_MEASPARAM_DYNDARK">>,
      <<-120, "ERR_NOT_SUPPORTED_BY_SENSOR_TYPE">>,
      <<-121, "ERR_NOT_SUPPORTED_BY_FW_VER">>,
      <<-122, "ERR_NOT_SUPPORTED_BY_FPGA_VER">>,
      <<-140, "ERR_SL_CALIBRATION_NOT_AVAILABLE">>,
      <<-141, "ERR_SL_STARTPIXEL_NOT_IN_RANGE">>,
      <<-142, "ERR_SL_ENDPIXEL_NOT_IN_RANGE">>,
      <<-143, "ERR_SL_STARTPIX_GT_ENDPIX">>,
      <<-144, "ERR_SL_MFACTOR_OUT_OF_RANGE">>,
      <<1000, "invalidHandle">> }

\* Values a vendor call may return that avaspec.h does not list.
UnlistedCodes == {-23, -25, -99, -123456321, 1, 2}

\* Every return value considered.
ReturnValues == {m[1] : m \in AvsReturnCode} \cup UnlistedCodes

\* The `what` arguments the controller passes to assert_avs_code.
Operations ==
    {"GetList (device list)", "Activate", "GetNumPixels", "GetVersionInfo",
     "GetParameter", "GetAnalogIn", "PrepareMeasure", "Measure", "GetLambda",
     "PollScan", "GetScopeData", "StopMeasure"}

\* The errorCode event of a CSC that is not in FAULT.
NoErrorCode == [code |-> 0, report |-> ""]

\* ExposureState values that end an exposure.
TerminalStates == {"DONE", "CANCELLED", "TIMEDOUT", "FAILED"}

\* The readings of a simulated spectrograph at rest: what the vendor
\* library reports to one get_status() call (the version strings, the
\* configuration record with the set point and the temperature fit, the
\* voltage of the thermistor input).
Reading0 == [version |-> "v1", config |-> [setpoint |-> 5, fit |-> <<0, 1>>], voltage |-> 0]

\* Readings that differ from those in every part.
Reading1 == [version |-> "v2", config |-> [setpoint |-> 6, fit |-> <<1, 2>>], voltage |-> 1]

Readings == {Reading0, Reading1}

\* `config=None` in a DeviceStatus.
NoConfig == [setpoint |-> NONE, fit |-> <<>>]

\* No telemetry loop was created yet and nothing was connected.
NoLoops == [created |-> 0, live |-> 0, queried |-> FALSE, queriedNone |-> FALSE,
            connect |-> "", disconnect |-> ""]

\* log=None
NoLog == "None"
\* The attribute self.log does not exist.
Unset == "unset"

\* What a mock whose side_effect list is used up raises in place of a
\* return value.
StopIteration == -9998

\* get_status() has returned no DeviceStatus.
NoStatus == [full |-> FALSE, reading |-> Reading0, returned |-> FALSE,
             status |-> [n_pixels |-> 0, version |-> "", temperature_setpoint |-> NONE,
                         temperature |-> NONE, config |-> NoConfig]]

\* No AvsReturnError has been constructed.
NoError == [code |-> 0, what |-> "", valid |-> FALSE, str |-> <<>>]

VARIABLES
    phase,          \* "new": not constructed; "connected"; "failed": __init__ raised
    connectResult,  \* outcome of __init__/_connect: [kind, listed]
    handle,         \* self.handle
    device,         \* self.device
    n_pixels,       \* self._n_pixels
    device_list,    \* the devices AVS_GetList reports
    serial_arg,     \* the serial_number the controller was constructed with
    vendor,         \* return values the vendor gave to _connect
    pollsToReady,   \* scripted PollScan (a mock's side_effect [0, ..., 0, 1]): the poll
                    \* of an exposure that returns 1; 0 when PollScan is not scripted
    log,            \* the `log` argument of the constructor and the logger self.log
                    \* names afterwards
    poll_side_effect, \* the values a simulator's AVS_PollScan mock returns call after
                    \* call (its side_effect list); <<>> when PollScan is not such a mock
    calls,          \* vendor calls issued so far, in order
    expose_task,    \* self._expose_task: 0 = the initial done future, c = sleep task of expose c
    taskState,      \* state of the sleep task created by expose c
    pc,             \* position of expose coroutine c
    duration,       \* duration argument of the latest expose() call
    data_available, \* local variable of expose c
    polls,          \* PollScan calls made by expose c (saturating at MaxPolls)
    loopTick,       \* parity of the polls made beyond MaxPolls
    exposeResult,   \* how expose c ended
    vendorFailure,  \* the vendor call of expose c that returned a negative code
    cancelRequested, \* suspension point of expose c at which its awaiting task was cancelled
    neverReady,     \* hardware fault: PollScan returns 0 on every call
    startedWhileActive, \* expose c was called while an earlier expose had not ended
    stoppedIn,      \* suspension point of expose c at which stop_exposure() was called
    disconnectedIn, \* suspension point of expose c at which disconnect() was called
    stopHist,       \* outcome of each stop_exposure() call: whether it raised, whether it
                    \* called StopMeasure, whether that call failed, the exposure stopped
    discHist,       \* outcome of each disconnect() call
    statusResult,   \* how the latest get_status() call ended
    checked,        \* the latest check_expose_ok() call: its argument, whether an
                    \* expose() was in flight, what it returned
    discJust,       \* the previous step was a disconnect() call
    raisedError,    \* the latest AvsReturnError constructed: its code, operation, text
    lastStatus,     \* the latest get_status() call: its argument, what the vendor
                    \* reported to it, the DeviceStatus it returned
    summary_state,  \* FiberSpectrographCsc.summary_state
    cscDevice,      \* FiberSpectrographCsc.device is not None
    events,         \* exposureState events written so far: [cmd, status]
    errorCode,      \* the latest errorCode event: [code, report]
    cscPc,          \* position of the do_expose callback of expose command c
    ack,            \* final acknowledgement of expose command c
    rejected,       \* reason the latest expose command was refused before starting
    telemetry_loop_task, \* FiberSpectrographCsc.telemetry_loop_task: "done", "pending", or
                    \* "cancelling" once cancel() was called and not yet delivered
    loops,          \* telemetry_loop() coroutines: how many were created and how many have
                    \* not ended, what they queried; the outcome of the latest connection
                    \* and disconnection made by handle_summary_state()
    transitions     \* number of summary-state transitions handled

connVars == <<phase, connectResult, handle, device, n_pixels, device_list, serial_arg, vendor,
             pollsToReady, poll_side_effect, log>>
taskVars == <<expose_task, taskState>>
\* State kept outside the controller object.
\* The telemetry loop of the CSC.
lifeVars == <<telemetry_loop_task, loops, transitions>>
cscVars == <<summary_state, cscDevice, events, errorCode, cscPc, ack, rejected, lifeVars>>
outerVars == <<raisedError, lastStatus, cscVars>>
coVars == <<pc, duration, data_available, polls, loopTick, exposeResult, vendorFailure,
           cancelRequested>>
ghostVars == <<startedWhileActive, stoppedIn, disconnectedIn, stopHist, discHist, statusResult,
              checked, outerVars>>
\* The state of the controller and of its clients' history.
ctrlVars == <<connVars, calls, taskVars, coVars, neverReady, startedWhileActive, stoppedIn,
             disconnectedIn, stopHist, discHist, statusResult, checked, discJust>>
vars == <<connVars, calls, taskVars, coVars, neverReady, ghostVars, discJust>>

\* A vendor call record: function, handle (or device index) passed, issuing exposure.
Call(fn, arg, by) == [fn |-> fn, arg |-> arg, by |-> by]

\* Number of recorded calls of fn.
RECURSIVE CountIn(_, _)
CountIn(s, fn) ==
    IF s = <<>> THEN 0
    ELSE (IF Head(s).fn = fn THEN 1 ELSE 0) + CountIn(Tail(s), fn)

NCalls(fn) == CountIn(calls, fn)

\* Positions in `calls` of the calls of fn.
Positions(fn) == {i \in 1..Len(calls) : calls[i].fn = fn}

NoResult == [kind |-> "", listed |-> <<>>]

\* check_expose_ok() has not been called.
NoCheck == [called |-> FALSE, duration |-> "", active |-> FALSE, result |-> ""]

Init ==
    /\ phase = "new"
    /\ connectResult = NoResult
    /\ handle = NONE
    /\ device = NoDevice
    /\ n_pixels = 0
    /\ device_list = <<>>
    /\ serial_arg = NoSerial
    /\ vendor = [GetList |-> 0, Activate |-> 0, GetNumPixels |-> 0]
    /\ pollsToReady = 0
    /\ poll_side_effect = <<>>
    /\ log = [arg |-> NoLog, attr |-> Unset]
    /\ calls = <<>>
    /\ expose_task = 0
    /\ taskState = [c \in Callers |-> "unborn"]
    /\ pc = [c \in Callers |-> "idle"]
    /\ duration = "in_range"
    /\ data_available = [c \in Callers |-> 0]
    /\ polls = [c \in Callers |-> 0]
    /\ loopTick = FALSE
    /\ exposeResult = [c \in Callers |-> ""]
    /\ vendorFailure = [c \in Callers |-> ""]
    /\ cancelRequested = [c \in Callers |-> "none"]
    /\ neverReady \in BOOLEAN
    /\ startedWhileActive = [c \in Callers |-> FALSE]
    /\ stoppedIn = [c \in Callers |-> "none"]
    /\ disconnectedIn = [c \in Callers |-> "none"]
    /\ stopHist = <<>>
    /\ discHist = <<>>
    /\ statusResult = ""
    /\ checked = NoCheck
    /\ discJust = FALSE
    /\ raisedError = NoError
    /\ lastStatus = NoStatus
    /\ summary_state = "STANDBY"
    /\ cscDevice = FALSE
    /\ events = <<>>
    /\ errorCode = NoErrorCode
    /\ cscPc = [c \in Callers |-> "idle"]
    /\ ack = [c \in Callers |-> ""]
    /\ rejected = ""
    /\ telemetry_loop_task = "done"
    /\ loops = NoLoops
    /\ transitions = 0

\* ------------------------------------------------------------- _connect
\* Index of the first device whose serial number is `serial_number`, 0 if none.
RECURSIVE FirstMatch(_, _, _)
FirstMatch(serial_number, devs, i) ==
    IF i > Len(devs) THEN 0
    ELSE IF devs[i].SerialNumber = serial_number THEN i
    ELSE FirstMatch(serial_number, devs, i + 1)

\* SelectDevice with the test for several devices off by one.
SelectDevice_OffByOne(serial_number, devs) ==
    IF serial_number = NoSerial
    THEN IF Len(devs) > 2
         THEN [idx |-> 0, err |-> "RuntimeError: Multiple devices found"]
         ELSE [idx |-> 1, err |-> ""]
    ELSE LET i == FirstMatch(serial_number, devs, 1) IN
         IF i = 0 THEN [idx |-> 0, err |-> "LookupError: serial number not found"]
         ELSE [idx |-> i, err |-> ""]

\* SelectDevice whose search loop has no `else` branch: after a search that
\* found nothing, the loop variable is still bound to the last device.
SelectDevice_NoElse(serial_number, devs) ==
    IF serial_number = NoSerial
    THEN IF Len(devs) > 1
         THEN [idx |-> 0, err |-> "RuntimeError: Multiple devices found"]
         ELSE [idx |-> 1, err |-> ""]
    ELSE LET i == FirstMatch(serial_number, devs, 1) IN
         IF i = 0 THEN [idx |-> Len(devs), err |-> ""]
         ELSE [idx |-> i, err |-> ""]

\* The device selection of _connect: the index of the selected device, or
\* the error raised instead.
SelectDevice(serial_number, devs) ==
    IF serial_number = NoSerial
    THEN IF Len(devs) > 1
         THEN [idx |-> 0, err |-> "RuntimeError: Multiple devices found"]
         ELSE [idx |-> 1, err |-> ""]
    ELSE LET i == FirstMatch(serial_number, devs, 1) IN
         IF i = 0 THEN [idx |-> 0, err |-> "LookupError: serial number not found"]
         ELSE [idx |-> i, err |-> ""]

\* ActivateCheck without the test for the invalid-handle sentinel.
ActivateCheck_NoSentinel(h) ==
    IF h < 0 THEN "AvsReturnError: Activate" ELSE ""

\* The checks _connect makes on the value h returned by AVS_Activate: the
\* error raised, "" if none.
ActivateCheck(h) ==
    IF h < 0 THEN "AvsReturnError: Activate"
    ELSE IF h = invalidHandle THEN "RuntimeError: Invalid device handle"
    ELSE ""

\* __init__ followed by _connect, with the values the vendor library returns.
Construct(serial_number, log_arg, devs, glCode, actRet, npCode) ==
    /\ phase = "new"
    /\ log' = [arg |-> log_arg,
               attr |-> IF log_arg = NoLog THEN "FiberSpectrograph" ELSE Unset]
    /\ serial_arg' = serial_number
    /\ device_list' = devs
    /\ vendor' = [GetList |-> glCode, Activate |-> actRet, GetNumPixels |-> npCode]
    /\ discJust' = FALSE
    /\ LET n_devices == Len(devs)
           c0 == <<Call("AVS_Init", 0, 0), Call("AVS_UpdateUSBDevices", 0, 0)>>
           c1 == Append(c0, Call("AVS_GetList", 0, 0))
           sel == SelectDevice(serial_number, devs)
           c2 == Append(c1, Call("AVS_Activate", sel.idx, 0))
           c3 == Append(c2, Call("AVS_GetNumPixels", actRet, 0))
           Fail(kind, listed, cs, h, d) ==
               /\ phase' = "failed"
               /\ connectResult' = [kind |-> kind, listed |-> listed]
               /\ calls' = cs
               /\ handle' = h
               /\ device' = d
               /\ n_pixels' = n_pixels
       IN
       IF n_devices = 0
       THEN Fail("RuntimeError: No attached USB Avantes devices found", <<>>, c0, NONE, NoDevice)
       ELSE IF log'.attr = Unset
       THEN \* self.log.debug(...): self.log was never assigned
            Fail("AttributeError: object has no attribute 'log'", <<>>, c0, NONE, NoDevice)
       ELSE IF glCode < 0
       THEN Fail("AvsReturnError: GetList (device list)", <<>>, c1, NONE, NoDevice)
       ELSE IF sel.err # ""
       THEN Fail(sel.err, devs, c1, NONE, NoDevice)
       ELSE IF ActivateCheck(actRet) # ""
       THEN Fail(ActivateCheck(actRet), IF actRet < 0 THEN <<>> ELSE <<devs[sel.idx]>>,
                 c2, actRet, NoDevice)
       ELSE IF npCode < 0
       THEN Fail("AvsReturnError: GetNumPixels", <<>>, c3, actRet, devs[sel.idx])
       ELSE /\ phase' = "connected"
            /\ connectResult' = [kind |-> "ok", listed |-> <<>>]
            /\ calls' = c3
            /\ handle' = actRet
            /\ device' = devs[sel.idx]
            /\ n_pixels' = SimPixels
    /\ UNCHANGED <<taskVars, coVars, neverReady, ghostVars>>

\* Device lists of at most MaxDevices devices.
DeviceLists == UNION {[1..n -> Identities] : n \in 0..MaxDevices}

\* Construction against any vendor behaviour.
ConstructAny ==
    /\ phase = "new"
    /\ \E serial_number \in SerialNumbers \cup {NoSerial}, devs \in DeviceLists,
          glCode \in Codes, actRet \in ActivateReturns, npCode \in Codes :
           Construct(serial_number, NoLog, devs, glCode, actRet, npCode)
    /\ UNCHANGED <<pollsToReady, poll_side_effect>>

\* Construction with or without a logger of the caller, against any vendor
\* behaviour.
ConstructLogged ==
    /\ phase = "new"
    /\ \E serial_number \in SerialNumbers \cup {NoSerial}, log_arg \in {NoLog, "testingLogger"},
          devs \in DeviceLists, glCode \in Codes, actRet \in ActivateReturns, npCode \in Codes :
           Construct(serial_number, log_arg, devs, glCode, actRet, npCode)
    /\ UNCHANGED <<pollsToReady, poll_side_effect>>

\* Construction against the simulator's "no error conditions" configuration.
ConstructSim ==
    /\ Construct(NoSerial, NoLog, <<id0>>, 1, SimHandle, 0)
    /\ UNCHANGED <<pollsToReady, poll_side_effect>>

\* Construction against the simulator with PollScan scripted to return 0 on
\* k polls and then 1 (the simulator's side_effect is [0, 0, 0, 1]).
ConstructScripted ==
    /\ ~neverReady
    /\ Construct(NoSerial, NoLog, <<id0>>, 1, SimHandle, 0)
    /\ \E k \in 0..MaxNotReady : pollsToReady' = k + 1
    /\ UNCHANGED poll_side_effect

\* Construction against an AvsSimulator, whose AVS_PollScan mock returns the
\* values of the list [0, 0, 0, 1] one call after the other.
ConstructSimulator ==
    /\ ~neverReady
    /\ Construct(NoSerial, NoLog, <<id0>>, 1, SimHandle, 0)
    /\ poll_side_effect' = <<0, 0, 0, 1>>
    /\ pollsToReady' = Len(poll_side_effect')

\* -------------------------------------------------------- stop_exposure
\* TaskDone that takes a cancelled task for one still running.
TaskDone_OnlyFinished == expose_task = 0 \/ taskState[expose_task] = "finished"

\* self._expose_task.done()
TaskDone == expose_task = 0 \/ taskState[expose_task] \in {"finished", "cancelled"}

\* Suspension point at which expose c currently is, for the history variables.
SuspendedAt(c) ==
    IF pc[c] = "wait" /\ taskState[c] = "pending" THEN "wait"
    ELSE IF pc[c] = "pollsleep" THEN "poll"
    ELSE "none"

\* StopEffect without the test that the task is still running: StopMeasure
\* is called whatever the state of the task.
StopEffect_NoDoneCheck(code) ==
    [added |-> <<Call("AVS_StopMeasure", handle, expose_task)>>,
     tasks |-> IF TaskDone THEN taskState
               ELSE [taskState EXCEPT ![expose_task] = "cancelling"],
     raised |-> code < 0,
     acted |-> TRUE]

\* stop_exposure() with StopMeasure returning `code`: the calls it adds, the
\* task states it leaves and whether it raises.
StopEffect(code) ==
    IF ~TaskDone
    THEN [added |-> <<Call("AVS_StopMeasure", handle, expose_task)>>,
          tasks |-> [taskState EXCEPT ![expose_task] = "cancelling"],
          raised |-> code < 0,
          acted |-> TRUE]
    ELSE [added |-> <<>>, tasks |-> taskState, raised |-> FALSE, acted |-> FALSE]

StopExposure ==
    /\ phase = "connected"
    /\ \E code \in Codes :
        LET e == StopEffect(code) IN
        /\ calls' = calls \o e.added
        /\ taskState' = e.tasks
        /\ stopHist' = Append(stopHist,
               [raised |-> e.raised, acted |-> e.acted,
                failed |-> e.acted /\ code < 0,
                target |-> IF e.acted THEN expose_task ELSE 0])
    /\ stoppedIn' = [c \in Callers |->
                        IF stoppedIn[c] = "none" THEN SuspendedAt(c) ELSE stoppedIn[c]]
    /\ discJust' = FALSE
    /\ UNCHANGED <<connVars, expose_task, coVars, neverReady,
                   startedWhileActive, disconnectedIn, discHist, statusResult, checked, outerVars>>

\* ----------------------------------------------------------- disconnect
\* disconnect(), also run by __del__; `code` is what StopMeasure returns and
\* `result`, one of `results`, what AVS_Deactivate returns, unless it raises
\* (`raise`, one of `raises`).
disconnect(results, raises) ==
    /\ phase # "new"
    /\ \E code \in Codes, result \in results, raise \in raises :
        LET e == StopEffect(code)
            entry(raised, h, stopFailed) ==
                [raised |-> raised, handleAfter |-> h, stopFailed |-> stopFailed,
                 stopped |-> e.acted, inRow |-> discJust,
                 loggedError |-> ~raised /\ ~result, handleBefore |-> handle,
                 deactivate |-> IF stopFailed THEN "notcalled"
                                ELSE IF raise THEN "raised"
                                ELSE IF result THEN "ok" ELSE "failed"]
        IN
        IF handle # NONE /\ handle # invalidHandle
        THEN IF e.raised
             THEN \* stop_exposure() raised: the exception leaves disconnect()
                  /\ calls' = calls \o e.added
                  /\ taskState' = e.tasks
                  /\ handle' = handle
                  /\ discHist' = Append(discHist, entry(TRUE, handle, TRUE))
             ELSE IF raise
             THEN \* AVS_Deactivate raised: the exception leaves disconnect()
                  /\ calls' = calls \o e.added \o <<Call("AVS_Deactivate", handle, 0)>>
                  /\ taskState' = e.tasks
                  /\ handle' = handle
                  /\ discHist' = Append(discHist, entry(TRUE, handle, FALSE))
             ELSE /\ calls' = calls \o e.added
                              \o <<Call("AVS_Deactivate", handle, 0), Call("AVS_Done", 0, 0)>>
                  /\ taskState' = e.tasks
                  /\ handle' = NONE
                  /\ discHist' = Append(discHist, entry(FALSE, NONE, FALSE))
        ELSE /\ calls' = Append(calls, Call("AVS_Done", 0, 0))
             /\ taskState' = taskState
             /\ handle' = handle
             /\ discHist' = Append(discHist, [raised |-> FALSE, handleAfter |-> handle,
                                              stopFailed |-> FALSE, stopped |-> FALSE,
                                              inRow |-> discJust,
                                              loggedError |-> FALSE, handleBefore |-> handle,
                                              deactivate |-> "notcalled"])
    /\ disconnectedIn' = [c \in Callers |->
                            IF disconnectedIn[c] = "none" THEN SuspendedAt(c)
                            ELSE disconnectedIn[c]]
    /\ discJust' = TRUE
    /\ UNCHANGED <<phase, connectResult, device, n_pixels, device_list, serial_arg, vendor,
                   pollsToReady, poll_side_effect, log, expose_task, coVars, neverReady, startedWhileActive,
                   stoppedIn, stopHist, statusResult, checked>>

\* A client of the controller calls disconnect().
Disconnect(results) == disconnect(results, {FALSE}) /\ UNCHANGED outerVars

\* disconnect() with any behaviour of AVS_Deactivate: it returns true or
\* false, or it raises.
DisconnectAny == disconnect(BOOLEAN, BOOLEAN) /\ UNCHANGED outerVars

\* --------------------------------------------------------------- expose
\* An expose() call that has started and has neither returned nor raised.
InFlight(c) == pc[c] \in {"wait", "pollsleep"}

\* What AVS_PollScan may return to expose c on its next poll.
PollChoices(c) ==
    IF poll_side_effect # <<>>
    THEN {IF NCalls("AVS_PollScan") < Len(poll_side_effect)
          THEN poll_side_effect[NCalls("AVS_PollScan") + 1]
          ELSE StopIteration}
    ELSE IF neverReady THEN {0}
    ELSE IF pollsToReady > 0 THEN {IF polls[c] + 1 < pollsToReady THEN 0 ELSE 1}
    ELSE IF polls[c] + 1 >= MaxPolls THEN {1, ERR_INVALID_PARAMETER}
    ELSE PollReturns

\* Number of PollScan calls of an exposure that are recorded individually.
PollCap == IF pollsToReady > MaxPolls THEN pollsToReady ELSE MaxPolls

\* StartCalls with a foreign vendor call between Measure and GetLambda.
StartCalls_PollsBetween(c, prep, meas, lam) ==
    LET p1 == Call("AVS_PrepareMeasure", handle, c)
        p2 == Call("AVS_Measure", handle, c)
        px == Call("AVS_GetAnalogIn", handle, 0)
        p3 == Call("AVS_GetLambda", handle, c)
    IN
    IF prep < 0 THEN [cs |-> <<p1>>, err |-> "AvsReturnError: PrepareMeasure"]
    ELSE IF meas < 0 THEN [cs |-> <<p1, p2>>, err |-> "AvsReturnError: Measure"]
    ELSE IF lam < 0 THEN [cs |-> <<p1, p2, px, p3>>, err |-> "AvsReturnError: GetLambda"]
    ELSE [cs |-> <<p1, p2, px, p3>>, err |-> ""]

\* StartCalls without the check of the code PrepareMeasure returns.
StartCalls_NoPrepareCheck(c, prep, meas, lam) ==
    LET p1 == Call("AVS_PrepareMeasure", handle, c)
        p2 == Call("AVS_Measure", handle, c)
        p3 == Call("AVS_GetLambda", handle, c)
    IN
    IF meas < 0 THEN [cs |-> <<p1, p2>>, err |-> "AvsReturnError: Measure"]
    ELSE IF lam < 0 THEN [cs |-> <<p1, p2, p3>>, err |-> "AvsReturnError: GetLambda"]
    ELSE [cs |-> <<p1, p2, p3>>, err |-> ""]

\* The vendor calls expose c makes before its first await, given the codes
\* the vendor returns, and the error the first negative code raises.
StartCalls(c, prep, meas, lam) ==
    LET p1 == Call("AVS_PrepareMeasure", handle, c)
        p2 == Call("AVS_Measure", handle, c)
        p3 == Call("AVS_GetLambda", handle, c)
    IN
    IF prep < 0 THEN [cs |-> <<p1>>, err |-> "AvsReturnError: PrepareMeasure"]
    ELSE IF meas < 0 THEN [cs |-> <<p1, p2>>, err |-> "AvsReturnError: Measure"]
    ELSE IF lam < 0 THEN [cs |-> <<p1, p2, p3>>, err |-> "AvsReturnError: GetLambda"]
    ELSE [cs |-> <<p1, p2, p3>>, err |-> ""]

\* The first call, in the order they are made, to which the vendor returns
\* a negative code.
FirstFailure(prep, meas, lam) ==
    IF prep < 0 THEN "AVS_PrepareMeasure"
    ELSE IF meas < 0 THEN "AVS_Measure"
    ELSE IF lam < 0 THEN "AVS_GetLambda"
    ELSE ""

\* expose() up to its first await: PrepareMeasure, Measure, GetLambda, then
\* the sleep task is created and stored in self._expose_task.
ExposeFirstStep(c) ==
    /\ phase = "connected"
    /\ pc[c] = "idle"
    /\ \A d \in Callers : d < c => pc[d] # "idle"
    /\ \E dur \in Durations, prep \in Codes, meas \in Codes, lam \in Codes :
        LET sc == StartCalls(c, prep, meas, lam)
            Raise(what, cs) ==
                /\ calls' = calls \o cs
                /\ pc' = [pc EXCEPT ![c] = "done"]
                /\ exposeResult' = [exposeResult EXCEPT ![c] = what]
                /\ UNCHANGED taskVars
        IN
        /\ duration' = dur
        /\ vendorFailure' = [vendorFailure EXCEPT ![c] =
               IF handle = NONE THEN "" ELSE FirstFailure(prep, meas, lam)]
        /\ IF handle = NONE
           THEN \* argtypes c_long rejects None before the call is made
                Raise("ArgumentError", <<>>)
           ELSE IF sc.err # "" THEN Raise(sc.err, sc.cs)
           ELSE /\ calls' = calls \o sc.cs
                /\ expose_task' = c
                /\ taskState' = [taskState EXCEPT ![c] = "pending"]
                /\ pc' = [pc EXCEPT ![c] = "wait"]
                /\ exposeResult' = exposeResult
    /\ startedWhileActive' =
           [startedWhileActive EXCEPT ![c] = \E d \in Callers \ {c} : InFlight(d)]
    /\ discJust' = FALSE
    /\ UNCHANGED <<connVars, data_available, polls, loopTick, cancelRequested, neverReady,
                   stoppedIn, disconnectedIn, stopHist, discHist, statusResult, checked>>

\* A client of the controller calls expose().
ExposeStart(c) == ExposeFirstStep(c) /\ UNCHANGED outerVars

\* The timer of asyncio.sleep(duration) fires: the sleep task finishes.
SleepFinish(c) ==
    /\ taskState[c] = "pending"
    /\ taskState' = [taskState EXCEPT ![c] = "finished"]
    /\ discJust' = FALSE
    /\ UNCHANGED <<connVars, calls, expose_task, coVars, neverReady, ghostVars>>

\* The event loop delivers a requested cancellation to the sleep task.
TaskCancelled(c) ==
    /\ taskState[c] = "cancelling"
    /\ taskState' = [taskState EXCEPT ![c] = "cancelled"]
    /\ discJust' = FALSE
    /\ UNCHANGED <<connVars, calls, expose_task, coVars, neverReady, ghostVars>>

\* PollBody without the check of the code PollScan returns.
PollBody_NoCheck(c, r) ==
    /\ calls' = Append(calls, Call("AVS_PollScan", handle, c))
    /\ polls' = [polls EXCEPT ![c] = IF polls[c] < PollCap THEN polls[c] + 1 ELSE polls[c]]
    /\ loopTick' = loopTick
    /\ data_available' = [data_available EXCEPT ![c] = r]
    /\ vendorFailure' = [vendorFailure EXCEPT ![c] = IF r < 0 THEN "AVS_PollScan" ELSE ""]
    /\ pc' = [pc EXCEPT ![c] = "pollsleep"]
    /\ exposeResult' = exposeResult

\* One pass of the poll loop body of expose c: PollScan returning r, the
\* check of its code, then the suspension in asyncio.sleep(0.001).
PollBody(c, r) ==
    /\ IF polls[c] < PollCap
       THEN /\ calls' = Append(calls, Call("AVS_PollScan", handle, c))
            /\ polls' = [polls EXCEPT ![c] = polls[c] + 1]
            /\ loopTick' = loopTick
       ELSE /\ calls' = calls
            /\ polls' = polls
            /\ loopTick' = ~loopTick
    /\ data_available' = [data_available EXCEPT ![c] = IF r = StopIteration THEN @ ELSE r]
    /\ vendorFailure' = [vendorFailure EXCEPT ![c] =
                             IF r < 0 /\ r # StopIteration THEN "AVS_PollScan" ELSE ""]
    /\ IF r = StopIteration
       THEN \* raised by the mock inside the coroutine, which turns it into a
            \* RuntimeError
            /\ pc' = [pc EXCEPT ![c] = "done"]
            /\ exposeResult' = [exposeResult EXCEPT ![c] =
                                   "RuntimeError: coroutine raised StopIteration"]
       ELSE IF r < 0
       THEN /\ pc' = [pc EXCEPT ![c] = "done"]
            /\ exposeResult' = [exposeResult EXCEPT ![c] = "AvsReturnError: PollScan"]
       ELSE /\ pc' = [pc EXCEPT ![c] = "pollsleep"]
            /\ exposeResult' = exposeResult

\* expose c resumes from `await self._expose_task`.
ExposeResume(c) ==
    /\ pc[c] = "wait"
    /\ taskState[c] \in {"finished", "cancelled"}
    /\ IF taskState[c] = "cancelled" \/ cancelRequested[c] # "none"
       THEN \* except asyncio.CancelledError: return None
            /\ pc' = [pc EXCEPT ![c] = "done"]
            /\ exposeResult' = [exposeResult EXCEPT ![c] = "returned None"]
            /\ UNCHANGED <<calls, data_available, polls, loopTick, vendorFailure>>
       ELSE \E r \in PollChoices(c) : PollBody(c, r)
    /\ discJust' = FALSE
    /\ UNCHANGED <<connVars, taskVars, duration, cancelRequested, neverReady, ghostVars>>

\* LoopDone leaving the poll loop after any answer that is not an error.
LoopDone_AnyAnswer(c) == data_available[c] >= 0

\* The poll loop of expose c is over: `while data_available != 1` fails.
LoopDone(c) == data_available[c] = 1

\* expose c resumes from `await asyncio.sleep(0.001)`: the loop condition is
\* tested, then either the next poll or the readout follows.
PollWake(c) ==
    /\ pc[c] = "pollsleep"
    /\ IF cancelRequested[c] # "none"
       THEN \* CancelledError is thrown into the coroutine and leaves expose()
            /\ pc' = [pc EXCEPT ![c] = "done"]
            /\ exposeResult' = [exposeResult EXCEPT ![c] = "CancelledError"]
            /\ UNCHANGED <<calls, data_available, polls, loopTick, vendorFailure>>
       ELSE IF ~LoopDone(c)
       THEN \E r \in PollChoices(c) : PollBody(c, r)
       ELSE \E code \in Codes :
            /\ calls' = Append(calls, Call("AVS_GetScopeData", handle, c))
            /\ pc' = [pc EXCEPT ![c] = "done"]
            /\ exposeResult' = [exposeResult EXCEPT ![c] =
                   IF code < 0 THEN "AvsReturnError: GetScopeData"
                   ELSE "returned (wavelength, spectrum)"]
            /\ vendorFailure' = [vendorFailure EXCEPT ![c] =
                   IF code < 0 THEN "AVS_GetScopeData" ELSE ""]
            /\ UNCHANGED <<data_available, polls, loopTick>>
    /\ discJust' = FALSE
    /\ UNCHANGED <<connVars, taskVars, duration, cancelRequested, neverReady, ghostVars>>

\* The client cancels the task that awaits expose c.  The cancellation is
\* passed to the future the coroutine is suspended on: the sleep task of the
\* integration wait (if it has not finished yet) or the delay of the poll
\* loop; it is raised in expose() when the coroutine next runs.
CancelAwaiter(c) ==
    /\ InFlight(c)
    /\ cancelRequested[c] = "none"
    /\ cancelRequested' = [cancelRequested EXCEPT ![c] =
                              IF pc[c] = "wait" THEN "wait" ELSE "poll"]
    /\ taskState' = IF pc[c] = "wait" /\ taskState[c] = "pending"
                    THEN [taskState EXCEPT ![c] = "cancelling"]
                    ELSE taskState
    /\ discJust' = FALSE
    /\ UNCHANGED <<connVars, calls, expose_task, pc, duration, data_available, polls,
                   loopTick, exposeResult, vendorFailure, neverReady, ghostVars>>

\* ----------------------------------------------------------- get_status
\* StatusCalls that also polls the device for measured data.
StatusCalls_WithPoll(ver, par, ana) ==
    LET s1 == Call("AVS_GetVersionInfo", handle, 0)
        s2 == Call("AVS_GetParameter", handle, 0)
        s3 == Call("AVS_GetAnalogIn", handle, 0)
        s4 == Call("AVS_PollScan", handle, 0)
    IN
    IF ver < 0 THEN [cs |-> <<s1>>, err |-> "AvsReturnError: GetVersionInfo"]
    ELSE IF par < 0 THEN [cs |-> <<s1, s2>>, err |-> "AvsReturnError: GetParameter"]
    ELSE IF ana < 0 THEN [cs |-> <<s1, s2, s3>>, err |-> "AvsReturnError: GetAnalogIn"]
    ELSE [cs |-> <<s1, s2, s3, s4>>, err |-> ""]

\* The vendor calls get_status() makes, given the codes the vendor returns,
\* and the error the first negative code raises.
StatusCalls(ver, par, ana) ==
    LET s1 == Call("AVS_GetVersionInfo", handle, 0)
        s2 == Call("AVS_GetParameter", handle, 0)
        s3 == Call("AVS_GetAnalogIn", handle, 0)
    IN
    IF ver < 0 THEN [cs |-> <<s1>>, err |-> "AvsReturnError: GetVersionInfo"]
    ELSE IF par < 0 THEN [cs |-> <<s1, s2>>, err |-> "AvsReturnError: GetParameter"]
    ELSE IF ana < 0 THEN [cs |-> <<s1, s2, s3>>, err |-> "AvsReturnError: GetAnalogIn"]
    ELSE [cs |-> <<s1, s2, s3>>, err |-> ""]

\* get_status() that gives the connection up when a vendor call fails.
GetStatus_DropsHandle ==
    /\ phase = "connected"
    /\ handle # NONE
    /\ \E ver \in Codes, par \in Codes, ana \in Codes :
        LET st == StatusCalls(ver, par, ana) IN
        /\ calls' = calls \o st.cs
        /\ statusResult' = IF st.err # "" THEN st.err ELSE "returned DeviceStatus"
        /\ handle' = IF st.err # "" THEN NONE ELSE handle
    /\ discJust' = FALSE
    /\ UNCHANGED <<phase, connectResult, device, n_pixels, device_list, serial_arg, vendor,
                   pollsToReady, poll_side_effect, log, taskVars, coVars, neverReady, startedWhileActive, stoppedIn,
                   disconnectedIn, stopHist, discHist, checked, outerVars>>

\* DeviceStatus that hands the configuration record out whatever `full` is.
DeviceStatus_AlwaysConfig(reading, full) ==
    [n_pixels |-> n_pixels,
     version |-> reading.version,
     temperature_setpoint |-> reading.config.setpoint,
     temperature |-> reading.config.fit[1] + reading.config.fit[2] * reading.voltage,
     config |-> reading.config]

\* The DeviceStatus get_status(full) builds from what the vendor reported
\* and the cached pixel count; the temperature is the fit polynomial of the
\* configuration evaluated at the voltage.
DeviceStatus(reading, full) ==
    [n_pixels |-> n_pixels,
     version |-> reading.version,
     temperature_setpoint |-> reading.config.setpoint,
     temperature |-> reading.config.fit[1] + reading.config.fit[2] * reading.voltage,
     config |-> IF full THEN reading.config ELSE NoConfig]

\* get_status(full): GetVersionInfo, GetParameter, GetAnalogIn, each checked,
\* then the DeviceStatus is built from them and the cached pixel count.
get_status(fulls, readings) ==
    /\ phase = "connected"
    /\ \E ver \in Codes, par \in Codes, ana \in Codes, full \in fulls, reading \in readings :
        LET st == StatusCalls(ver, par, ana) IN
        IF handle = NONE
        THEN \* argtypes c_long rejects None before the call is made
             /\ calls' = calls
             /\ statusResult' = "ArgumentError"
             /\ lastStatus' = NoStatus
        ELSE /\ calls' = calls \o st.cs
             /\ statusResult' = IF st.err # "" THEN st.err ELSE "returned DeviceStatus"
             /\ lastStatus' = IF st.err # "" THEN NoStatus
                              ELSE [full |-> full, reading |-> reading, returned |-> TRUE,
                                    status |-> DeviceStatus(reading, full)]
    /\ discJust' = FALSE
    /\ UNCHANGED <<connVars, taskVars, coVars, neverReady, startedWhileActive, stoppedIn,
                   disconnectedIn, stopHist, discHist, checked, raisedError, cscVars>>

\* A client calls get_status() on a spectrograph at rest.
GetStatus == get_status({FALSE}, {Reading0})

\* A client calls get_status(full) on a spectrograph reporting anything.
GetStatusAny == get_status(BOOLEAN, Readings)

\* ------------------------------------------------------ check_expose_ok
\* check_expose_ok(duration): the reason an exposure cannot be started, or
\* "None".  The controller's only record of an exposure is self._expose_task.
check_expose_ok(dur) ==
    IF ~TaskDone THEN "Cannot start new exposure"
    ELSE IF dur # "in_range" THEN "Exposure duration not in valid range"
    ELSE "None"

\* A client calls check_expose_ok(dur).
CheckExposeOk ==
    /\ phase = "connected"
    /\ \E dur \in Durations :
        checked' = [called |-> TRUE, duration |-> dur,
                    active |-> \E c \in Callers : InFlight(c),
                    result |-> check_expose_ok(dur)]
    /\ discJust' = FALSE
    /\ UNCHANGED <<connVars, calls, taskVars, coVars, neverReady,
                   startedWhileActive, stoppedIn, disconnectedIn, stopHist, discHist,
                   statusResult, outerVars>>

\* ------------------------------------------------------- AvsReturnError
\* AvsReturnCode(code) succeeds.
IsReturnCode(code) == \E m \in AvsReturnCode : m[1] = code

\* repr() of the enum member with this value.
ReprCode(code) ==
    LET m == CHOOSE m \in AvsReturnCode : m[1] = code
    IN <<"<AvsReturnCode.", m[2], ": ", ToString(code), ">">>

\* AvsReturnError.__str__, as the pieces of the text in order (the backquote
\* around the operation is written ' here).
Str_NoSizeCase(code, what) ==
    IF ~IsReturnCode(code)
    THEN <<"Unknown Error (", ToString(code), ") calling '", what, "';",
           " Please consult Avantes documentation and update 'AvsReturnCode' to include this code.">>
    ELSE <<"Error calling '", what, "' with error code ">> \o ReprCode(code)

Str(code, what) ==
    IF ~IsReturnCode(code)
    THEN <<"Unknown Error (", ToString(code), ") calling '", what, "';",
           " Please consult Avantes documentation and update 'AvsReturnCode' to include this code.">>
    ELSE IF code = -9
    THEN <<"Fatal Error ">> \o ReprCode(code)
            \o <<" calling '", what, "': allocated size too small for data.">>
    ELSE <<"Error calling '", what, "' with error code ">> \o ReprCode(code)

\* AvsReturnError(code, what).
AvsReturnError(code, what) ==
    [code |-> code, what |-> what, valid |-> IsReturnCode(code), str |-> Str(code, what)]

\* assert_avs_code(code, what): the exception raised, NoError when none is.
assert_avs_code(code, what) ==
    IF code < 0 THEN AvsReturnError(code, what) ELSE NoError

\* Some code constructs AvsReturnError(code, what) directly.
NewAvsReturnError ==
    /\ \E code \in ReturnValues, what \in Operations :
        raisedError' = AvsReturnError(code, what)
    /\ UNCHANGED <<ctrlVars, lastStatus, cscVars>>

\* assert_avs_code(code, what) is applied to the return value of a vendor call.
AssertAvsCode ==
    /\ \E code \in ReturnValues, what \in Operations :
        /\ assert_avs_code(code, what) # NoError
        /\ raisedError' = assert_avs_code(code, what)
    /\ UNCHANGED <<ctrlVars, lastStatus, cscVars>>

\* ------------------------------------------------- FiberSpectrographCsc
\* The start and enable commands: handle_summary_state() has constructed the
\* controller and the CSC is ENABLED.
CscEnable ==
    /\ summary_state = "STANDBY"
    /\ phase = "connected"
    /\ handle # NONE
    /\ ~cscDevice
    /\ summary_state' = "ENABLED"
    /\ cscDevice' = TRUE
    /\ UNCHANGED <<ctrlVars, raisedError, lastStatus, events, errorCode, cscPc, ack, rejected,
                   lifeVars>>

\* The exception do_expose() sees when it awaits the task of expose c, ""
\* when the task returned the two arrays.
TaskException(c) ==
    IF exposeResult[c] = "returned (wavelength, spectrum)" THEN ""
    ELSE IF exposeResult[c] = "returned None"
    THEN "TypeError: cannot unpack non-iterable NoneType object"
    ELSE exposeResult[c]

\* FinalState that treats every exception of the task as a cancellation.
FinalState_ErrorsCancelled(c) ==
    IF TaskException(c) = "" THEN "DONE" ELSE "CANCELLED"

\* The exposureState do_expose() writes once the task of expose c is over.
FinalState(c) ==
    IF TaskException(c) = "" THEN "DONE"
    ELSE IF TaskException(c) = "CancelledError" THEN "CANCELLED"
    ELSE IF TaskException(c) = "TimeoutError: Timeout polling for exposure to be ready"
    THEN "TIMEDOUT"
    ELSE "FAILED"

\* do_expose() of expose command c up to `await task`: assert_enabled,
\* check_expose_ok, the task running expose() is created, INTEGRATING is
\* written; the task then runs to its first await before any other callback.
\* Callbacks of one command topic run one at a time.
DoExpose(c) ==
    /\ summary_state = "ENABLED"
    /\ cscDevice
    /\ cscPc[c] = "idle"
    /\ \A d \in Callers : cscPc[d] # "awaiting"
    /\ \E dur \in Durations :
        IF check_expose_ok(dur) # "None"
        THEN /\ rejected' = check_expose_ok(dur)
             /\ discJust' = FALSE
             /\ UNCHANGED <<connVars, calls, taskVars, coVars, neverReady,
                            startedWhileActive, stoppedIn, disconnectedIn, stopHist,
                            discHist, statusResult, checked>>
             /\ UNCHANGED <<raisedError, lastStatus, lifeVars, summary_state, cscDevice, events, errorCode,
                            cscPc, ack>>
        ELSE /\ ExposeFirstStep(c)
             /\ duration' = dur
             /\ rejected' = ""
             /\ events' = Append(events, [cmd |-> c, status |-> "INTEGRATING"])
             /\ cscPc' = [cscPc EXCEPT ![c] = "awaiting"]
             /\ UNCHANGED <<raisedError, lastStatus, lifeVars, summary_state, cscDevice, errorCode, ack>>

\* do_expose() of expose command c resumes from `await task`: DONE and the
\* data are saved; or CANCELLED and the cancellation is re-raised; or
\* TIMEDOUT or FAILED, then fault(code=20), whose handle_summary_state()
\* disconnects the controller and drops it.
DoExposeResume(c) ==
    /\ cscPc[c] = "awaiting"
    /\ pc[c] = "done"
    /\ cscPc' = [cscPc EXCEPT ![c] = "done"]
    /\ events' = Append(events, [cmd |-> c, status |-> FinalState(c)])
    /\ IF FinalState(c) \in {"DONE", "CANCELLED"}
       THEN /\ ack' = [ack EXCEPT ![c] = IF FinalState(c) = "DONE" THEN "CMD_COMPLETE"
                                         ELSE "CMD_ABORTED"]
            /\ UNCHANGED <<ctrlVars, summary_state, cscDevice, errorCode>>
       ELSE /\ ack' = [ack EXCEPT ![c] = "CMD_FAILED"]
            /\ summary_state' = "FAULT"
            /\ errorCode' = [code |-> 20, report |-> TaskException(c)]
            /\ cscDevice' = FALSE
            /\ disconnect({TRUE}, {FALSE})
    /\ UNCHANGED <<raisedError, lastStatus, rejected, lifeVars>>

\* do_cancelExposure(): assert_enabled, then stop_exposure().
DoCancelExposure ==
    /\ summary_state = "ENABLED"
    /\ cscDevice
    /\ StopExposure

\* The standby command sent to a CSC in FAULT: the error code is cleared;
\* handle_summary_state() finds no controller to disconnect.
DoStandby ==
    /\ summary_state = "FAULT"
    /\ summary_state' = "STANDBY"
    /\ errorCode' = NoErrorCode
    /\ UNCHANGED <<ctrlVars, raisedError, lastStatus, cscDevice, events, cscPc, ack, rejected,
                   lifeVars>>

\* --------------------------- FiberSpectrographCsc: the summary states
\* The errors the construction of the controller may end with.
ConnectErrors ==
    {"RuntimeError: No attached USB Avantes devices found",
     "AttributeError: object has no attribute 'log'",
     "AvsReturnError: GetList (device list)",
     "LookupError: serial number not found",
     "RuntimeError: Invalid device handle"}

\* telemetry_loop_task.cancel(): a task that has not ended is cancelled at
\* the next step of the event loop.
Cancel(task) == IF task = "pending" THEN "cancelling" ELSE task

\* TelemetryDone that takes every task for one that has ended.
TelemetryDone_Always == TRUE

\* self.telemetry_loop_task.done()
TelemetryDone == telemetry_loop_task = "done"

\* handle_summary_state() once summary_state has become `state` and the
\* errorCode event is `code`. In DISABLED and ENABLED a missing controller
\* is constructed, which ends as `outcome`: an error is reported by
\* fault(code=1), which makes the state FAULT and runs handle_summary_state()
\* for it; then the telemetry loop is created unless the task is still
\* running. In the other states the telemetry task is cancelled and the
\* controller is disconnected and dropped, unless disconnect() raises
\* (`raise`), which leaves handle_summary_state() before `self.device = None`.
handle_summary_state(state, code, outcome, raise) ==
    IF state \in {"ENABLED", "DISABLED"}
    THEN IF ~cscDevice /\ outcome # "ok"
         THEN /\ summary_state' = "FAULT"
              /\ errorCode' = [code |-> 1, report |-> outcome]
              /\ telemetry_loop_task' = Cancel(telemetry_loop_task)
              /\ cscDevice' = FALSE
              /\ loops' = [loops EXCEPT !.connect = outcome, !.disconnect = ""]
         ELSE /\ summary_state' = state
              /\ errorCode' = code
              /\ cscDevice' = TRUE
              /\ telemetry_loop_task' = IF TelemetryDone THEN "pending" ELSE telemetry_loop_task
              /\ loops' = [loops EXCEPT
                              !.created = IF TelemetryDone THEN @ + 1 ELSE @,
                              !.live = IF TelemetryDone THEN @ + 1 ELSE @,
                              !.queried = IF TelemetryDone THEN FALSE ELSE @,
                              !.connect = IF cscDevice THEN "" ELSE "ok",
                              !.disconnect = ""]
    ELSE /\ summary_state' = state
         /\ errorCode' = code
         /\ telemetry_loop_task' = Cancel(telemetry_loop_task)
         /\ cscDevice' = (cscDevice /\ raise)
         /\ loops' = [loops EXCEPT
                         !.connect = "",
                         !.disconnect = IF ~cscDevice THEN ""
                                        ELSE IF raise THEN "raised" ELSE "returned"]

\* The CSC goes from a state of `from` to `to`, by a state-transition
\* command or by fault(), and handles the new state.
Transition(from, to, code) ==
    /\ summary_state \in from
    /\ transitions < MaxTransitions
    /\ transitions' = transitions + 1
    /\ \E outcome \in ConnectErrors \cup {"ok"}, raise \in BOOLEAN :
        handle_summary_state(to, code, outcome, raise)
    /\ UNCHANGED <<ctrlVars, raisedError, lastStatus, events, cscPc, ack, rejected>>

StartCommand == Transition({"STANDBY"}, "DISABLED", errorCode)
EnableCommand == Transition({"DISABLED"}, "ENABLED", errorCode)
DisableCommand == Transition({"ENABLED"}, "DISABLED", errorCode)
StandbyCommand == Transition({"DISABLED", "FAULT"}, "STANDBY", NoErrorCode)

\* exitControl: OFFLINE is handled, then the CSC closes and close_tasks()
\* cancels the telemetry task once more.
ExitControlCommand == Transition({"STANDBY"}, "OFFLINE", errorCode)

\* do_expose() reports a failed or timed-out exposure with fault(code=20).
ExposeFault ==
    \E report \in {"AvsReturnError: GetScopeData",
                   "TimeoutError: Timeout polling for exposure to be ready"} :
        Transition({"ENABLED"}, "FAULT", [code |-> 20, report |-> report])

\* The telemetry task runs one turn of telemetry_loop(): it asks the
\* controller for its status, which may raise and end the task, writes the
\* temperature and sleeps.
TelemetryLoop ==
    /\ telemetry_loop_task = "pending"
    /\ \E raised \in BOOLEAN :
        IF ~cscDevice \/ raised
        THEN /\ telemetry_loop_task' = "done"
             /\ loops' = [loops EXCEPT !.live = @ - 1, !.queried = TRUE,
                                       !.queriedNone = @ \/ ~cscDevice]
        ELSE /\ telemetry_loop_task' = telemetry_loop_task
             /\ loops' = [loops EXCEPT !.queried = TRUE]
    /\ UNCHANGED <<ctrlVars, raisedError, lastStatus, summary_state, cscDevice, events,
                   errorCode, cscPc, ack, rejected, transitions>>

\* The event loop delivers the cancellation to the telemetry task, which
\* ends at its await.
TelemetryCancelled ==
    /\ telemetry_loop_task = "cancelling"
    /\ telemetry_loop_task' = "done"
    /\ loops' = [loops EXCEPT !.live = @ - 1]
    /\ UNCHANGED <<ctrlVars, raisedError, lastStatus, summary_state, cscDevice, events,
                   errorCode, cscPc, ack, rejected, transitions>>

\* ------------------------------------------------------- specifications
\* The client has made fewer than n stop_exposure() and disconnect() calls.
ClientBudget(n) == Len(stopHist) + Len(discHist) < n

\* Number of expose() calls in flight.
NInFlight == Cardinality({c \in Callers : InFlight(c)})

\* The steps of the event loop: timers, cancellations, resumed coroutines.
LoopStep ==
    \/ \E c \in Callers : SleepFinish(c)
    \/ \E c \in Callers : TaskCancelled(c)
    \/ \E c \in Callers : ExposeResume(c)
    \/ \E c \in Callers : PollWake(c)

\* A client that starts an exposure only when none is in flight, and may
\* call stop_exposure() and disconnect() at any time; the vendor library
\* connects and deactivates as the simulator does, the measurement calls
\* return any code.
Next ==
    \/ ConstructSim
    \/ ClientBudget(MaxClientOps) /\ StopExposure
    \/ ClientBudget(MaxClientOps) /\ Disconnect({TRUE})
    \/ \E c \in Callers : NInFlight = 0 /\ ExposeStart(c)
    \/ LoopStep

Spec == Init /\ [][Next]_vars

\* The event loop runs every callback that is ready: a fired timer, a
\* cancellation to deliver, a coroutine whose awaited task or delay is over.
LoopFairness ==
    \A c \in Callers :
        /\ WF_vars(SleepFinish(c))
        /\ WF_vars(TaskCancelled(c))
        /\ WF_vars(ExposeResume(c))
        /\ WF_vars(PollWake(c))

FairSpec == Spec /\ LoopFairness

\* Clients that call expose() while an earlier call is still in flight.
NextRace ==
    \/ ConstructSim
    \/ ClientBudget(MaxRaceOps) /\ StopExposure
    \/ ClientBudget(MaxRaceOps) /\ Disconnect({TRUE})
    \/ \E c \in Callers : NInFlight < MaxInFlight /\ ExposeStart(c)
    \/ LoopStep

RaceSpec == Init /\ [][NextRace]_vars

\* A client that cancels the task awaiting an exposure, or stops it.
NextCancel ==
    \/ ConstructSim
    \/ ClientBudget(MaxRaceOps) /\ StopExposure
    \/ \E c \in Callers : NInFlight = 0 /\ ExposeStart(c)
    \/ \E c \in Callers : CancelAwaiter(c)
    \/ LoopStep

CancelSpec == Init /\ [][NextCancel]_vars

\* A client that asks check_expose_ok() at any time, around exposures it
\* starts one after the other and may stop.
NextCheck ==
    \/ ConstructSim
    \/ ClientBudget(MaxRaceOps) /\ StopExposure
    \/ \E c \in Callers : NInFlight = 0 /\ ExposeStart(c)
    \/ CheckExposeOk
    \/ LoopStep

CheckSpec == Init /\ [][NextCheck]_vars

\* Exposures against a vendor library whose PollScan is scripted, with a
\* client that may stop them.
NextScripted ==
    \/ ConstructScripted
    \/ ClientBudget(MaxRaceOps) /\ StopExposure
    \/ \E c \in Callers : NInFlight = 0 /\ ExposeStart(c)
    \/ LoopStep

ScriptedSpec == Init /\ [][NextScripted]_vars

\* The client has made fewer than n get_status() calls that reached the vendor.
StatusBudget(n) == NCalls("AVS_GetVersionInfo") < n

\* A client that takes one exposure, which it may cancel, and queries the
\* status at any time, before, during and after it.
NextStatus ==
    \/ ConstructSim
    \/ CancelAwaiter(1)
    \/ StatusBudget(MaxClientOps) /\ GetStatus
    \/ ExposeStart(1)
    \/ LoopStep

StatusSpec == Init /\ [][NextStatus]_vars

\* Connection lifecycle only: construction against any vendor behaviour,
\* then disconnect() calls (by the client or by __del__).
NextConnect ==
    \/ ConstructAny
    \/ ClientBudget(MaxClientOps) /\ Disconnect(BOOLEAN)

ConnectSpec == Init /\ [][NextConnect]_vars

\* Error values being rendered, for any return value and operation.
NextError ==
    \/ NewAvsReturnError
    \/ AssertAvsCode

ErrorSpec == Init /\ [][NextError]_vars

\* The CSC with a simulated spectrograph, driven by expose, cancelExposure
\* and standby commands.
NextCsc ==
    \/ ConstructSim
    \/ CscEnable
    \/ \E c \in Callers : DoExpose(c)
    \/ \E c \in Callers : DoExposeResume(c)
    \/ ClientBudget(MaxRaceOps) /\ DoCancelExposure
    \/ DoStandby
    \/ LoopStep

CscSpec == Init /\ [][NextCsc]_vars

\* The event loop runs every callback that is ready.
CscFairness ==
    /\ LoopFairness
    /\ \A c \in Callers : WF_vars(DoExposeResume(c))

FairCscSpec == CscSpec /\ CscFairness

\* A client that queries the status, with or without the configuration
\* record, of a spectrograph that reports anything, before and after one
\* exposure and a disconnect.
NextQuery ==
    \/ ConstructSim
    \/ StatusBudget(MaxClientOps) /\ NInFlight = 0 /\ GetStatusAny
    \/ ClientBudget(MaxRaceOps) /\ Disconnect({TRUE})
    \/ ExposeStart(1)
    \/ LoopStep

QuerySpec == Init /\ [][NextQuery]_vars

\* A controller built against any vendor library and any attached devices,
\* then disconnect() calls during which AVS_Deactivate returns true or
\* false, or raises.
NextTeardown ==
    \/ ConstructAny
    \/ ClientBudget(MaxClientOps) /\ DisconnectAny

TeardownSpec == Init /\ [][NextTeardown]_vars

\* The CSC taken through its summary states by commands and faults, with
\* its telemetry loop; connecting and disconnecting the controller may fail.
NextLifecycle ==
    \/ StartCommand
    \/ EnableCommand
    \/ DisableCommand
    \/ StandbyCommand
    \/ ExitControlCommand
    \/ ExposeFault
    \/ TelemetryLoop
    \/ TelemetryCancelled

LifecycleSpec == Init /\ [][NextLifecycle]_vars

\* Consecutive exposures, each started when the one before is over and none
\* of them stopped or cancelled, on a controller connected to one
\* AvsSimulator.
NextSimulator ==
    \/ ConstructSimulator
    \/ \E c \in Callers : NInFlight = 0 /\ ExposeStart(c)
    \/ \E c \in Callers : SleepFinish(c)
    \/ \E c \in Callers : ExposeResume(c)
    \/ \E c \in Callers : PollWake(c)

SimulatorSpec == Init /\ [][NextSimulator]_vars

\* A controller built with or without a logger of the caller, then
\* disconnect() calls.
NextLogger ==
    \/ ConstructLogged
    \/ ClientBudget(MaxClientOps) /\ Disconnect(BOOLEAN)

LoggerSpec == Init /\ [][NextLogger]_vars

\* ---------------------------------------------------------- properties
\* Positions in `calls` of the calls issued by expose c.
CallsBy(c) == {i \in 1..Len(calls) : calls[i].by = c /\ calls[i].fn # "AVS_StopMeasure"}

\* Positions of the calls of fn issued by expose c.
CallsOf(fn, c) == {i \in CallsBy(c) : calls[i].fn = fn}

\* The latest expose() call made so far (callers are used in order).
IsLatest(c) == pc[c] # "idle" /\ \A d \in Callers : d > c => pc[d] = "idle"

\* The device _connect has to select: the sole device without a serial
\* number, the first device with the requested serial number otherwise.
Requested ==
    IF serial_arg = NoSerial
    THEN (IF Len(device_list) = 1 THEN 1 ELSE 0)
    ELSE FirstMatch(serial_arg, device_list, 1)

\* The vendor calls of _connect other than the enumeration succeeded.
VendorOk ==
    /\ vendor.GetList >= 0
    /\ vendor.Activate >= 0
    /\ vendor.Activate # invalidHandle
    /\ vendor.GetNumPixels >= 0

\* C1: an expose() called while an earlier expose() has neither returned nor
\* raised fails with "Cannot start new exposure" and issues no vendor call,
\* so PrepareMeasure and Measure are called once in total.
C1_SecondExposeRejected ==
    \A c \in Callers :
        startedWhileActive[c] =>
            /\ pc[c] = "done"
            /\ exposeResult[c] = "RuntimeError: Cannot start new exposure"
            /\ CallsBy(c) = {}
            /\ NCalls("AVS_PrepareMeasure") = 1
            /\ NCalls("AVS_Measure") = 1

\* C2: expose(duration) with a duration outside [MIN_DURATION, MAX_DURATION]
\* fails at once with "Exposure duration not in valid range" and issues no
\* PrepareMeasure, Measure, PollScan or GetScopeData call.
C2_DurationOutOfRangeRejected ==
    \A c \in Callers :
        (IsLatest(c) /\ duration # "in_range") =>
            /\ pc[c] = "done"
            /\ exposeResult[c] = "RuntimeError: Exposure duration not in valid range"
            /\ CallsBy(c) = {}

\* C3: stop_exposure() called while expose() is suspended in its integration
\* wait calls StopMeasure with the handle, the expose() ends as cancelled
\* (it returns no value) and polls or reads nothing afterwards.
C3_StopDuringWaitCancels ==
    \A c \in Callers :
        stoppedIn[c] = "wait" =>
            /\ \E i \in Positions("AVS_StopMeasure") : calls[i].arg = SimHandle
            /\ CallsOf("AVS_PollScan", c) = {}
            /\ CallsOf("AVS_GetScopeData", c) = {}
            /\ pc[c] = "done" => exposeResult[c] = "cancelled"

\* C4: stop_exposure() called while expose() is in its poll loop issues
\* exactly one StopMeasure call with the handle, the expose() ends as
\* cancelled and GetScopeData is never called for it.
C4_StopDuringPollCancels ==
    \A c \in Callers :
        (stoppedIn[c] = "poll" /\ Len(stopHist) = 1 /\ discHist = <<>>) =>
            /\ \A i \in Positions("AVS_StopMeasure") : calls[i].arg = SimHandle
            /\ NCalls("AVS_StopMeasure") = 1
            /\ CallsOf("AVS_GetScopeData", c) = {}
            /\ pc[c] = "done" => exposeResult[c] = "cancelled"

\* C5: when PollScan returns 0 on every call, an expose() that has entered
\* its poll loop ends, by raising "Timeout polling for exposure to be ready".
C5_PollLoopTimesOut ==
    \A c \in Callers :
        (neverReady /\ pc[c] = "pollsleep") ~>
            (/\ pc[c] = "done"
             /\ exposeResult[c] = "TimeoutError: Timeout polling for exposure to be ready"
             /\ CallsOf("AVS_GetScopeData", c) = {})

\* C6: disconnect() called while an exposure is in its integration wait or
\* poll loop stops it first: StopMeasure precedes Deactivate, Deactivate is
\* issued once with the handle and before AVS_Done, handle is None afterwards
\* and the expose() ends as cancelled.
C6_DisconnectStopsExposure ==
    \A c \in Callers :
        (disconnectedIn[c] # "none" /\ stopHist = <<>> /\ ~discHist[1].stopFailed) =>
            /\ handle = NONE
            /\ NCalls("AVS_Deactivate") = 1
            /\ \A i \in Positions("AVS_Deactivate") :
                /\ calls[i].arg = SimHandle
                /\ \E j \in Positions("AVS_StopMeasure") : j < i
                /\ \E j \in Positions("AVS_Done") : i < j
            /\ pc[c] = "done" => exposeResult[c] = "cancelled"

\* C7: when the StopMeasure call made by disconnect() returns an error code,
\* disconnect() does not raise, Deactivate and AVS_Done are still issued and
\* handle becomes None.
C7_DisconnectSurvivesStopError ==
    \A i \in 1..Len(discHist) :
        discHist[i].stopFailed =>
            /\ ~discHist[i].raised
            /\ discHist[i].handleAfter = NONE
            /\ NCalls("AVS_Deactivate") >= 1
            /\ NCalls("AVS_Done") >= 1

\* C8: disconnect() called twice in a row leaves the state of one call
\* (handle None), the second call does not raise, and Deactivate is issued
\* at most once.
C8_DisconnectIdempotent ==
    \A i \in 2..Len(discHist) :
        discHist[i].inRow =>
            /\ ~discHist[i].raised
            /\ discHist[i - 1].handleAfter = NONE
            /\ discHist[i].handleAfter = NONE
            /\ NCalls("AVS_Deactivate") <= 1

\* C9: when the device to connect to reports in its status byte that it is
\* in use, connect fails with "Requested AVS device is already in use" and
\* Activate is never called.
C9_InUseDeviceRefused ==
    (phase # "new" /\ vendor.GetList >= 0 /\ Requested # 0
        /\ device_list[Requested].Status # "USB_AVAILABLE") =>
        /\ connectResult.kind = "RuntimeError: Requested AVS device is already in use"
        /\ NCalls("AVS_Activate") = 0

SerialAbsent ==
    /\ serial_arg # NoSerial
    /\ \A i \in 1..Len(device_list) : device_list[i].SerialNumber # serial_arg

\* C11: when connect fails while selecting a device (no devices found,
\* GetList returns an error code, or the requested serial number is not
\* enumerated) Activate is never called and handle stays None; with no
\* devices found GetList is not called either.  When the serial number given
\* is present, the device activated is one with that serial number.
C11_SelectionFailureActivatesNothing ==
    phase # "new" =>
        /\ (Len(device_list) = 0 \/ vendor.GetList < 0 \/ SerialAbsent) =>
              /\ phase = "failed"
              /\ NCalls("AVS_Activate") = 0
              /\ handle = NONE
        /\ Len(device_list) = 0 =>
              /\ connectResult.kind = "RuntimeError: No attached USB Avantes devices found"
              /\ NCalls("AVS_GetList") = 0
        /\ (Len(device_list) > 0 /\ vendor.GetList < 0) =>
              connectResult.kind = "AvsReturnError: GetList (device list)"
        /\ (Len(device_list) > 0 /\ vendor.GetList >= 0 /\ SerialAbsent) =>
              connectResult.kind = "LookupError: serial number not found"
        /\ (Len(device_list) > 0 /\ vendor.GetList >= 0
               /\ serial_arg # NoSerial /\ ~SerialAbsent) =>
              /\ NCalls("AVS_Activate") = 1
              /\ \A i \in Positions("AVS_Activate") :
                    /\ calls[i].arg \in 1..Len(device_list)
                    /\ device_list[calls[i].arg].SerialNumber = serial_arg

\* C11 witness: a connect to a serial number that none of two attached
\* devices has, refused after the enumeration.
C11_Witness ==
    /\ phase = "failed"
    /\ Len(device_list) = 2
    /\ vendor.GetList >= 0
    /\ SerialAbsent
    /\ NCalls("AVS_GetList") = 1

\* C12: when Activate returns the invalid-handle sentinel or a negative
\* code, connect fails ("Invalid device handle", respectively an
\* AvsReturnError naming Activate), Activate is called exactly once and
\* GetNumPixels is never called.
C12_ActivateFailureIsFatal ==
    (/\ phase # "new"
     /\ NCalls("AVS_Activate") >= 1
     /\ (vendor.Activate = invalidHandle \/ vendor.Activate < 0)) =>
        /\ phase = "failed"
        /\ connectResult.kind =
              (IF vendor.Activate < 0 THEN "AvsReturnError: Activate"
               ELSE "RuntimeError: Invalid device handle")
        /\ NCalls("AVS_Activate") = 1
        /\ NCalls("AVS_GetNumPixels") = 0

\* C12 witness: a connect whose one Activate call returned the
\* invalid-handle sentinel.
C12_Witness ==
    /\ phase = "failed"
    /\ vendor.Activate = invalidHandle
    /\ NCalls("AVS_Activate") = 1
    /\ connectResult.kind = "RuntimeError: Invalid device handle"

\* C13: when the StopMeasure call made by stop_exposure() on an active
\* exposure returns an error code, stop_exposure() raises the StopMeasure
\* error and the pending expose() still ends as cancelled, polling and
\* reading nothing.
C13_StopFailureStillCancels ==
    \A i \in 1..Len(stopHist) :
        stopHist[i].failed =>
            /\ stopHist[i].raised
            /\ CallsOf("AVS_PollScan", stopHist[i].target) = {}
            /\ CallsOf("AVS_GetScopeData", stopHist[i].target) = {}
            /\ pc[stopHist[i].target] = "done" =>
                  exposeResult[stopHist[i].target] = "cancelled"

\* C14: whenever an in-flight expose() has been cancelled (by
\* stop_exposure(), by disconnect() or by cancellation of the task awaiting
\* it, at either suspension point) a StopMeasure call has been issued for
\* that exposure.
C14_CancelledExposureIsStopped ==
    \A c \in Callers :
        (pc[c] = "done" /\ exposeResult[c] \in {"returned None", "CancelledError"}) =>
            \E i \in Positions("AVS_StopMeasure") :
                calls[i].by = c /\ calls[i].arg = SimHandle

\* C15: check_expose_ok(duration) returns a reason iff the duration is
\* outside [MIN_DURATION, MAX_DURATION] ("Exposure duration not in valid
\* range") or an exposure is active ("Cannot start new exposure"), and None
\* otherwise; it changes no controller state and issues no vendor call.
C15_CheckExposeOkReportsActive ==
    checked.called =>
        /\ checked.result = "None" <=>
              (checked.duration = "in_range" /\ ~checked.active)
        /\ checked.result = "Exposure duration not in valid range" =>
              checked.duration # "in_range"
        /\ checked.result = "Cannot start new exposure" => checked.active

\* The vendor calls of one exposure, in the order expose() makes them.
ExposureCalls ==
    <<"AVS_PrepareMeasure", "AVS_Measure", "AVS_GetLambda", "AVS_PollScan", "AVS_GetScopeData">>

\* Place of the call fn in that order.
StepOf(fn) == CHOOSE k \in 1..Len(ExposureCalls) : ExposureCalls[k] = fn

\* The error assert_avs_code raises for a negative code of the call fn.
ErrorNaming(fn) ==
    CASE fn = "AVS_PrepareMeasure" -> "AvsReturnError: PrepareMeasure"
      [] fn = "AVS_Measure" -> "AvsReturnError: Measure"
      [] fn = "AVS_GetLambda" -> "AvsReturnError: GetLambda"
      [] fn = "AVS_PollScan" -> "AvsReturnError: PollScan"
      [] fn = "AVS_GetScopeData" -> "AvsReturnError: GetScopeData"

\* C16: when a vendor call of an exposure (PrepareMeasure, Measure,
\* GetLambda, PollScan, GetScopeData) returns a negative code, expose()
\* raises the error naming that call, has issued none of the later calls of
\* the sequence, and the failed call is its last call: it is not repeated.
C16_VendorFailureIsFatal ==
    \A c \in Callers :
        vendorFailure[c] # "" =>
            /\ pc[c] = "done"
            /\ exposeResult[c] = ErrorNaming(vendorFailure[c])
            /\ \A i \in CallsBy(c) : StepOf(calls[i].fn) <= StepOf(vendorFailure[c])
            /\ \E i \in CallsOf(vendorFailure[c], c) : \A j \in CallsBy(c) : j <= i
            /\ vendorFailure[c] # "AVS_PollScan" =>
                  Cardinality(CallsOf(vendorFailure[c], c)) = 1

\* C16 witness: an exposure whose second PollScan call returned a negative
\* code, after PrepareMeasure, Measure, GetLambda and a first poll.
C16_Witness ==
    \E c \in Callers :
        /\ vendorFailure[c] = "AVS_PollScan"
        /\ exposeResult[c] = "AvsReturnError: PollScan"
        /\ Cardinality(CallsOf("AVS_PollScan", c)) = 2
        /\ CallsOf("AVS_GetScopeData", c) = {}

\* No stop_exposure(), disconnect() or cancellation of its awaiting task was
\* made while expose c was in flight.
Uncancelled(c) ==
    /\ stoppedIn[c] = "none"
    /\ disconnectedIn[c] = "none"
    /\ cancelRequested[c] = "none"

\* C17: when, after the integration wait, PollScan returns 0 exactly k times
\* and then 1, an uncancelled expose() calls PollScan exactly k + 1 times,
\* then calls GetScopeData once and, that call succeeding, returns the
\* (wavelength, spectrum) pair; it never polls more than k + 1 times.
C17_PollsUntilReady ==
    \A c \in Callers :
        (pollsToReady > 0 /\ Uncancelled(c)) =>
            /\ Cardinality(CallsOf("AVS_PollScan", c)) <= pollsToReady
            /\ \A i \in CallsOf("AVS_GetScopeData", c) :
                  /\ Cardinality(CallsOf("AVS_PollScan", c)) = pollsToReady
                  /\ \A j \in CallsOf("AVS_PollScan", c) : j < i
            /\ (pc[c] = "done" /\ vendorFailure[c] = "") =>
                  /\ Cardinality(CallsOf("AVS_PollScan", c)) = pollsToReady
                  /\ Cardinality(CallsOf("AVS_GetScopeData", c)) = 1
                  /\ exposeResult[c] = "returned (wavelength, spectrum)"

\* C17 witness: PollScan returned 0 three times and then 1, and the exposure
\* returned its data after exactly four polls.
C17_Witness ==
    \E c \in Callers :
        /\ pollsToReady = 4
        /\ Uncancelled(c)
        /\ Cardinality(CallsOf("AVS_PollScan", c)) = 4
        /\ exposeResult[c] = "returned (wavelength, spectrum)"

\* An expose() call has ended (returned or raised) and none is in flight.
ExposureOver == NInFlight = 0 /\ \E c \in Callers : pc[c] = "done"

\* C18: once expose() has returned or raised, for whatever reason, no
\* exposure is considered active: stop_exposure() would be a no-op (no
\* StopMeasure call, nothing cancelled, nothing raised), and a following
\* expose() with a valid duration on the connected device was accepted: it
\* went on to PrepareMeasure.
C18_ExposureRetired ==
    /\ ExposureOver =>
          \A code \in Codes :
              /\ ~StopEffect(code).acted
              /\ StopEffect(code).added = <<>>
              /\ StopEffect(code).tasks = taskState
              /\ ~StopEffect(code).raised
    /\ \A c \in Callers :
          (c > 1 /\ IsLatest(c) /\ duration = "in_range"
               /\ exposeResult[c] # "ArgumentError") =>
              /\ pc[c - 1] = "done"
              /\ exposeResult[c] # "RuntimeError: Cannot start new exposure"
              /\ CallsOf("AVS_PrepareMeasure", c) # {}

\* C18 witness: a first expose() ended by cancellation, a second one with a
\* valid duration was accepted and returned its data.
C18_Witness ==
    /\ ExposureOver
    /\ exposeResult[1] \in {"returned None", "CancelledError"}
    /\ duration = "in_range"
    /\ exposeResult[2] = "returned (wavelength, spectrum)"

\* The errors get_status() raises for a negative vendor code.
StatusErrors ==
    {"AvsReturnError: GetVersionInfo", "AvsReturnError: GetParameter",
     "AvsReturnError: GetAnalogIn"}

\* A step in which a vendor call of get_status() returned a negative code:
\* the call sequence stopped short of GetAnalogIn, or the status was not
\* returned after it.
StatusFailedStep ==
    /\ NCalls("AVS_GetVersionInfo")' > NCalls("AVS_GetVersionInfo")
    /\ \/ NCalls("AVS_GetAnalogIn")' = NCalls("AVS_GetAnalogIn")
       \/ statusResult' # "returned DeviceStatus"

\* A step in which a vendor call of expose c returned a negative code.
ExposeFailedStep(c) == vendorFailure[c] = "" /\ vendorFailure'[c] # ""

\* C19: a step in which a vendor call of get_status() or of expose() fails
\* raises the error to the caller and leaves the connection as it was: same
\* handle, connected device and cached pixel count, and no Deactivate or
\* AVS_Done call issued.
C19_VendorFailureKeepsConnection ==
    [][(StatusFailedStep \/ \E c \in Callers : ExposeFailedStep(c)) =>
        /\ handle' = handle
        /\ device' = device
        /\ n_pixels' = n_pixels
        /\ phase' = phase
        /\ NCalls("AVS_Deactivate")' = NCalls("AVS_Deactivate")
        /\ NCalls("AVS_Done")' = NCalls("AVS_Done")
        /\ StatusFailedStep => statusResult' \in StatusErrors
        /\ \A c \in Callers :
              ExposeFailedStep(c) => exposeResult'[c] = ErrorNaming(vendorFailure'[c])]_vars

\* C19 witness: get_status() failed at GetParameter during an exposure, and
\* the controller is still connected with its handle, device and pixel count.
C19_Witness ==
    /\ statusResult = "AvsReturnError: GetParameter"
    /\ NInFlight = 1
    /\ handle = SimHandle
    /\ device = id0
    /\ n_pixels = SimPixels
    /\ NCalls("AVS_Deactivate") = 0

\* A step that is a stop_exposure() call.
StopStep == Len(stopHist') = Len(stopHist) + 1

\* C20: stop_exposure() called when no exposure is active (none started, or
\* every started one has returned or raised, cancelled ones included) does
\* nothing: it issues no StopMeasure call, changes no state of the
\* controller and does not raise.
C20_StopWithoutExposureIsNoOp ==
    [][(StopStep /\ NInFlight = 0) =>
        /\ calls' = calls
        /\ connVars' = connVars
        /\ taskVars' = taskVars
        /\ coVars' = coVars
        /\ ~stopHist'[Len(stopHist')].raised
        /\ ~stopHist'[Len(stopHist')].acted]_vars

\* C20 witness: a first stop_exposure() cancelled an exposure in its
\* integration wait; a second one, made after that expose() had returned,
\* issued no StopMeasure call.
C20_Witness ==
    /\ Len(stopHist) = 2
    /\ stopHist[1].acted
    /\ ~stopHist[2].acted
    /\ pc[1] = "done"
    /\ exposeResult[1] = "returned None"
    /\ pc[2] = "idle"
    /\ NCalls("AVS_StopMeasure") = 1

\* The text of the error is exactly these pieces.
TextIs(pieces) == raisedError.str = pieces

\* The name the enum gives a value, as the text shows it.
ShownName(code) ==
    LET m == CHOOSE m \in AvsReturnCode : m[1] = code
    IN <<"<AvsReturnCode.", m[2], ": ", ToString(code), ">">>

\* C21: the text of an AvsReturnError is decided by its code alone and always
\* names the operation: a code the enum does not list gives "Unknown Error
\* (<code>) calling `<operation>`; Please consult ...", the invalid-size
\* code (-9) gives "Fatal Error <NAME> calling `<operation>`: allocated size
\* too small for data.", every other listed code gives "Error calling
\* `<operation>` with error code <NAME>".
C21_MessageByCode ==
    raisedError # NoError =>
        LET code == raisedError.code
            what == raisedError.what
            listed == code \in {m[1] : m \in AvsReturnCode}
        IN /\ \E i \in 1..Len(raisedError.str) : raisedError.str[i] = what
           /\ ~listed =>
                TextIs(<<"Unknown Error (", ToString(code), ") calling '", what, "';",
                         " Please consult Avantes documentation and update 'AvsReturnCode' to include this code.">>)
           /\ code = -9 =>
                TextIs(<<"Fatal Error ">> \o ShownName(code)
                       \o <<" calling '", what, "': allocated size too small for data.">>)
           /\ (listed /\ code # -9) =>
                TextIs(<<"Error calling '", what, "' with error code ">> \o ShownName(code))

\* C21 witness: the invalid-size code raised by GetScopeData has been
\* rendered as the fatal message.
C21_Witness ==
    /\ raisedError.code = -9
    /\ raisedError.what = "GetScopeData"
    /\ raisedError.str[1] = "Fatal Error "
    /\ raisedError.str[3] = "ERR_INVALID_SIZE"

\* The exposureState values written for expose command c, in order.
StatusesOf(c) ==
    LET own == SelectSeq(events, LAMBDA e : e.cmd = c)
    IN [i \in 1..Len(own) |-> own[i].status]

\* A cancelExposure command stopped exposure c during its integration wait.
CancelledByCommand(c) ==
    \E i \in 1..Len(stopHist) : stopHist[i].acted /\ stopHist[i].target = c

C24_NoCallAfterDisconnect ==
    /\ \A i \in Positions("AVS_Deactivate") :
          \A j \in (i + 1)..Len(calls) : calls[j].fn = "AVS_Done"
    /\ \A j \in 1..Len(calls) : calls[j].arg # NONE

\* C25: within one exposure the vendor calls occur in the order
\* PrepareMeasure, Measure, GetLambda, PollScan (one or more), GetScopeData,
\* and the calls of two exposures never interleave: all calls of one
\* precede all calls of the other.
C25_ExposureCallOrder ==
    /\ \A c \in Callers : \A i, j \in CallsBy(c) :
          i < j => /\ StepOf(calls[i].fn) <= StepOf(calls[j].fn)
                   /\ StepOf(calls[i].fn) = StepOf(calls[j].fn)
                         => calls[i].fn = "AVS_PollScan"
    /\ \A c \in Callers : CallsOf("AVS_GetScopeData", c) # {} =>
          CallsOf("AVS_PollScan", c) # {}
    /\ \A c, d \in Callers : c < d =>
          \A i \in CallsBy(c), j \in CallsBy(d) : i < j

\* The last vendor call issued by expose c.
LastCallBy(c) == calls[CHOOSE i \in CallsBy(c) : \A j \in CallsBy(c) : j <= i]

\* C26 as stated: PollScan returning 1 means ready, 0 not yet, and any other
\* result, negative or positive, is fatal: expose() raises an error naming
\* PollScan and stops polling.
C26_AnyOtherResultFatal ==
    \A c \in Callers :
        data_available[c] \notin {0, 1} =>
            /\ pc[c] = "done"
            /\ exposeResult[c] = "AvsReturnError: PollScan"

\* C26 amended: a negative PollScan result is fatal: expose() raises an
\* error naming PollScan, and that PollScan is the last vendor call of the
\* exposure; a positive result other than 1 is taken as not yet ready: the
\* exposure does not end with the PollScan error and goes on polling
\* (unless it is cancelled).
C26_NegativeResultFatal ==
    \A c \in Callers :
        /\ data_available[c] < 0 =>
              /\ pc[c] = "done"
              /\ exposeResult[c] = "AvsReturnError: PollScan"
              /\ LastCallBy(c).fn = "AVS_PollScan"
        /\ data_available[c] > 1 =>
              /\ exposeResult[c] # "AvsReturnError: PollScan"
              /\ pc[c] = "pollsleep" \/ cancelRequested[c] # "none"

\* C26 witness: the second PollScan of an exposure returned a negative code
\* and expose() raised the error naming PollScan.
C26_Witness ==
    /\ polls[1] = 2
    /\ data_available[1] < 0
    /\ pc[1] = "done"
    /\ exposeResult[1] = "AvsReturnError: PollScan"

\* C27: Deactivate is only called with a handle that a successful Activate
\* returned: when connecting failed at or before the activation (Activate
\* returned a negative code or the invalid-handle sentinel, or an earlier
\* step failed), a later disconnect(), the destructor's included, issues no
\* Deactivate.
C27_DeactivateOnlyActivated ==
    \A i \in Positions("AVS_Deactivate") :
        /\ NCalls("AVS_Activate") = 1
        /\ ActivateCheck(vendor.Activate) = ""
        /\ calls[i].arg = vendor.Activate

\* C28: when the task awaiting expose c is cancelled from outside while
\* expose() is suspended in its integration wait or in the delay between
\* polls, expose() ends as cancelled (it does not swallow the cancellation
\* and return a value) and issues no vendor call (PollScan, GetScopeData)
\* after the cancellation.
C28_ExternalCancelPropagates ==
    [][\A c \in Callers :
        /\ cancelRequested[c] # "none" => CallsBy(c)' = CallsBy(c)
        /\ (cancelRequested'[c] # "none" /\ pc'[c] = "done") =>
              exposeResult'[c] = "CancelledError"]_vars

IsCallOf(i, fn, c) == i \in 1..Len(calls) /\ calls[i].fn = fn /\ calls[i].by = c

\* Expose c ends by a cancellation in this step.
EndsCancelled(c) ==
    /\ exposeResult[c] = ""
    /\ exposeResult'[c] \in {"returned None", "CancelledError"}

\* C30: expose() yields only at the integration wait and at the delay
\* between polls: the PrepareMeasure, Measure and GetLambda calls of an
\* exposure are adjacent, with no vendor call of another operation between
\* them; a suspended expose() is at one of the two points; and a
\* cancellation ends expose() only from one of them, never in the step that
\* requests it.
C30_YieldPoints ==
    [][\A c \in Callers :
        /\ \A k \in 1..Len(calls') :
              /\ calls'[k].fn = "AVS_Measure" /\ calls'[k].by = c
                    => k > 1 /\ calls'[k - 1] = Call("AVS_PrepareMeasure", calls'[k].arg, c)
              /\ calls'[k].fn = "AVS_GetLambda" /\ calls'[k].by = c
                    => k > 1 /\ calls'[k - 1] = Call("AVS_Measure", calls'[k].arg, c)
        /\ pc'[c] \in {"idle", "wait", "pollsleep", "done"}
        /\ EndsCancelled(c) =>
              /\ pc[c] \in {"wait", "pollsleep"}
              /\ taskState'[c] = taskState[c]
              /\ cancelRequested'[c] = cancelRequested[c]]_vars

\* C30 witness: get_status() ran while expose 1 was in its integration
\* wait, right after the three adjacent start calls, and the exposure was
\* later cancelled from outside in the delay between polls.
C30_Witness ==
    /\ \E k \in 3..Len(calls) :
          /\ IsCallOf(k - 2, "AVS_PrepareMeasure", 1)
          /\ IsCallOf(k, "AVS_GetLambda", 1)
          /\ k < Len(calls)
          /\ calls[k + 1].fn = "AVS_GetVersionInfo"
    /\ cancelRequested[1] = "poll"
    /\ exposeResult[1] = "CancelledError"

\* A step that is a get_status() call reaching the vendor library.
StatusStep ==
    /\ Len(calls') > Len(calls)
    /\ calls'[Len(calls) + 1].fn = "AVS_GetVersionInfo"

\* C31: get_status() run at a suspension point of an in-flight exposure
\* does not affect it: the step issues only GetVersionInfo, GetParameter and
\* GetAnalogIn calls, and leaves the handle, the cached pixel count, the
\* exposure's task and every piece of state the rest of the exposure
\* depends on as they were, so the exposure goes on exactly as without it.
C31_StatusLeavesExposure ==
    [][(StatusStep /\ \E c \in Callers : InFlight(c)) =>
        /\ \A i \in (Len(calls) + 1)..Len(calls') :
              /\ calls'[i].fn \in {"AVS_GetVersionInfo", "AVS_GetParameter", "AVS_GetAnalogIn"}
              /\ calls'[i].arg = handle
        /\ SubSeq(calls', 1, Len(calls)) = calls
        /\ connVars' = connVars
        /\ taskVars' = taskVars
        /\ coVars' = coVars
        /\ neverReady' = neverReady]_vars

\* C31 witness: get_status() ran between a poll and the readout of
\* exposure 1, which then returned its data.
C31_Witness ==
    /\ exposeResult[1] = "returned (wavelength, spectrum)"
    /\ \E i \in Positions("AVS_GetVersionInfo") :
          /\ \E j \in CallsOf("AVS_PollScan", 1) : j < i
          /\ \E j \in CallsOf("AVS_GetScopeData", 1) : i < j
          /\ i + 2 <= Len(calls) /\ calls[i + 2].fn = "AVS_GetAnalogIn"

\* C32: the pixel count is queried once per connection (GetNumPixels at
\* connect) and no later operation changes it; every get_status() reports
\* that cached count and queries everything else anew (GetVersionInfo,
\* GetParameter, GetAnalogIn, in that order), its result depending on what
\* the vendor reports to this call only; the configuration record is
\* returned iff `full` is true.
C32_StatusQueriesAnew ==
    [][/\ (phase = "new" /\ phase' = "connected") =>
            /\ NCalls("AVS_GetNumPixels")' = 1
            /\ n_pixels' = SimPixels
       /\ phase = "connected" =>
            /\ n_pixels' = n_pixels
            /\ \A i \in (Len(calls) + 1)..Len(calls') : calls'[i].fn # "AVS_GetNumPixels"
       /\ (StatusStep /\ statusResult' = "returned DeviceStatus") =>
            LET r == lastStatus'.reading
                st == lastStatus'.status
            IN /\ Len(calls') = Len(calls) + 3
               /\ calls'[Len(calls) + 2].fn = "AVS_GetParameter"
               /\ calls'[Len(calls) + 3].fn = "AVS_GetAnalogIn"
               /\ st.n_pixels = n_pixels
               /\ st.n_pixels = SimPixels
               /\ st.version = r.version
               /\ st.temperature_setpoint = r.config.setpoint
               /\ st.temperature = r.config.fit[1] + r.config.fit[2] * r.voltage
               /\ st.config = (IF lastStatus'.full THEN r.config ELSE NoConfig)]_vars

\* C32 witness: a second get_status(), made with full=True after an
\* exposure, returned the other version, set point and configuration.
C32_Witness ==
    /\ NCalls("AVS_GetVersionInfo") = 2
    /\ NCalls("AVS_GetNumPixels") = 1
    /\ pc[1] = "done"
    /\ lastStatus.returned
    /\ lastStatus.full
    /\ lastStatus.status.version = "v2"
    /\ lastStatus.status.config.setpoint = 6
    /\ lastStatus.status.temperature = 3
    /\ lastStatus.status.n_pixels = SimPixels

\* C33: disconnect() always completes the teardown, whatever Deactivate
\* does: no disconnect() call raises and each one calls AVS_Done once; when
\* the handle was a device handle, Deactivate is called and the handle is
\* None afterwards, and a Deactivate that returned a failure value or raised
\* was logged as an error; when the handle was None or the invalid-handle
\* sentinel, Deactivate is not called.
C33_TeardownCompletes ==
    /\ NCalls("AVS_Done") = Len(discHist)
    /\ \A i \in 1..Len(discHist) :
        LET d == discHist[i] IN
        /\ ~d.raised
        /\ d.handleBefore \in {NONE, invalidHandle} <=> d.deactivate = "notcalled"
        /\ d.deactivate # "notcalled" => d.handleAfter = NONE
        /\ d.deactivate \in {"failed", "raised"} => d.loggedError

Connected(state) == state \in {"DISABLED", "ENABLED"}

C36_EverySimulatedExposureSucceeds ==
    \A c \in Callers :
        (poll_side_effect # <<>> /\ pc[c] = "done" /\ vendorFailure[c] = "") =>
            /\ exposeResult[c] = "returned (wavelength, spectrum)"
            /\ Cardinality(CallsOf("AVS_PollScan", c)) = 4
            /\ data_available[c] = 1

\* C37: a controller constructed with a logger of the caller connects as one
\* constructed with the default logger does: with the vendor calls
\* succeeding and the requested device enumerated and selectable, the
\* connection succeeds with that device and the handle Activate returned,
\* and self.log is the supplied logger.
C37_SuppliedLoggerConnects ==
    (phase # "new" /\ log.arg # NoLog /\ VendorOk /\ Requested # 0) =>
        /\ connectResult.kind = "ok"
        /\ device = device_list[Requested]
        /\ discHist = <<>> => handle = vendor.Activate
        /\ log.attr = log.arg

====
